---- MODULE Spec2Model ----
(***************************************************************************)
(* Model of the NL -> SQL assistant: the markdown cleanup of nl_to_sql     *)
(* (main_client.py), the HTTP API with its shared MCP session (api.py),    *)
(* the REPL (main_client.py) and the browser pipeline (stream_app.py).     *)
(*                                                                         *)
(* Texts handled by nl_to_sql are sequences of one-character strings.      *)
(***************************************************************************)
EXTENDS Integers, Sequences, FiniteSets, TLC

\* ------------------------------------------------------------------------
\* Bounds
\* ------------------------------------------------------------------------

\* An LLM response text is a concatenation of at most MaxPieces pieces.
MaxPieces == 5

\* ------------------------------------------------------------------------
\* Python string primitives used by nl_to_sql
\* ------------------------------------------------------------------------

\* The backtick character
BT == "BACKTICK"
NL == "\n"
SP == " "

\* three backticks, the markdown fence
Fence == <<BT, BT, BT>>

\* the markdown fence followed by sql
FenceSql == <<BT, BT, BT, "s", "q", "l">>

\* str.strip() removes leading and trailing whitespace
IsSpace(c) == c \in {SP, NL}

RECURSIVE LStrip(_)
LStrip(s) ==
    IF s = <<>> THEN s
    ELSE IF IsSpace(Head(s)) THEN LStrip(Tail(s)) ELSE s

RECURSIVE RStrip(_)
RStrip(s) ==
    IF s = <<>> THEN s
    ELSE IF IsSpace(s[Len(s)]) THEN RStrip(SubSeq(s, 1, Len(s) - 1)) ELSE s

Strip(s) == RStrip(LStrip(s))

\* s.startswith(p)
StartsWith(s, p) == Len(s) >= Len(p) /\ SubSeq(s, 1, Len(p)) = p

\* s.split("\n"): always at least one (possibly empty) line
RECURSIVE SplitLines(_)
SplitLines(s) ==
    IF \A i \in 1..Len(s) : s[i] # NL THEN <<s>>
    ELSE LET i == CHOOSE k \in 1..Len(s) :
                      s[k] = NL /\ \A j \in 1..(k - 1) : s[j] # NL
         IN  <<SubSeq(s, 1, i - 1)>> \o SplitLines(SubSeq(s, i + 1, Len(s)))

\* "\n".join(lines)
RECURSIVE JoinLines(_)
JoinLines(lines) ==
    IF Len(lines) = 0 THEN <<>>
    ELSE IF Len(lines) = 1 THEN lines[1]
    ELSE lines[1] \o <<NL>> \o JoinLines(Tail(lines))

\* s.replace(old, ""): leftmost non-overlapping occurrences are removed
RECURSIVE Remove(_, _)
Remove(s, old) ==
    IF Len(s) < Len(old) THEN s
    ELSE IF StartsWith(s, old) THEN Remove(SubSeq(s, Len(old) + 1, Len(s)), old)
    ELSE <<Head(s)>> \o Remove(Tail(s), old)

\* old in s
RECURSIVE Contains(_, _)
Contains(s, old) ==
    IF Len(s) < Len(old) THEN FALSE
    ELSE StartsWith(s, old) \/ Contains(Tail(s), old)

\* ------------------------------------------------------------------------
\* nl_to_sql: cleanup of the response text (main_client.py 40-50)
\* ------------------------------------------------------------------------

\* lines[1:-1]
InnerLines(lines) == SubSeq(lines, 2, Len(lines) - 1)

\* A slip of the fenced branch: the trailing .strip() of line 48 is left out.
FencedCleanupNoStrip(sql) ==
    LET lines == SplitLines(sql)
        inner == IF Len(lines) > 2 THEN Strip(JoinLines(InnerLines(lines))) ELSE sql
    IN  Remove(Remove(inner, FenceSql), Fence)

\* The body of the branch taken when sql starts with the fence (lines 44-48)
FencedCleanup(sql) ==
    LET lines == SplitLines(sql)
        inner == IF Len(lines) > 2 THEN Strip(JoinLines(InnerLines(lines))) ELSE sql
    IN  Strip(Remove(Remove(inner, FenceSql), Fence))

\* response.text -> returned sql (lines 40-50)
CleanSql(text) ==
    LET sql == Strip(text)
    IN  IF StartsWith(sql, Fence) THEN FencedCleanup(sql) ELSE sql

\* ------------------------------------------------------------------------
\* Response texts the translator is exercised on
\* ------------------------------------------------------------------------

Pieces == {<<BT>>, Fence, FenceSql, <<NL>>, <<SP>>, <<"a">>}

RECURSIVE Concat(_)
Concat(ps) == IF ps = <<>> THEN <<>> ELSE Head(ps) \o Concat(Tail(ps))

Texts == UNION {{Concat(ps) : ps \in [1..n -> Pieces]} : n \in 0..MaxPieces}


\* ------------------------------------------------------------------------
\* Values exchanged with the collaborators (LLM, tool server)
\* ------------------------------------------------------------------------

\* getattr(app.state, name, None) on an attribute never assigned
Unset == "<unset>"
None == "<None>"
SessionObj == "ClientSession"
Nil == "-"

\* str(e) of an exception that ends the client runner (may be empty)
ErrTexts == {"", "server.py failed"}
ToolError == "tool error"
ModelError == "model error"

\* payload of get_schema
SchemaText == "TABLE customers(id, name)"

\* response.text values of the translation call: a fenced and a bare reply
FencedReply == FenceSql \o <<NL, "a", NL>> \o Fence
BareReply == <<SP, "a", NL>>
LlmReplies == {FencedReply, BareReply}

\* response.text.strip() of the summary call
SummaryText == "summary"

\* api.py 146
SummaryFailed == "(summary failed)"

\* header + rows handed to the summariser (api.py 143, main_client.py 118,
\* stream_app.py 46)
PreviewLines == 11

\* execute_sql payloads as lists of lines (str.splitlines()): a rejected
\* query and a result set longer than the preview
ErrorResult == <<[kind |-> "Error", n |-> 0]>>
LongResult ==
    [i \in 1..(PreviewLines + 1) |->
        IF i = 1 THEN [kind |-> "header", n |-> 0] ELSE [kind |-> "row", n |-> i - 1]]
ExecResults == {ErrorResult, LongResult}

\* A slip of the REPL: the Error prefix of the payload is never recognised.
IsSoftErrorNever(text) == FALSE

\* sql_output.startswith("Error") (main_client.py 110)
IsSoftError(text) == Len(text) > 0 /\ text[1].kind = "Error"

\* "\n".join(lines[:11]) if len(lines) > 11 else text
RowsText(lines) ==
    IF Len(lines) > PreviewLines THEN SubSeq(lines, 1, PreviewLines) ELSE lines

\* getattr(app.state, name, None)
GetAttr(v) == IF v = Unset THEN None ELSE v

\* truth value of an attribute: None and "" are falsy
Truthy(v) == v \notin {None, ""}

\* ------------------------------------------------------------------------
\* State
\* ------------------------------------------------------------------------

\* Requests the HTTP API serves, numbered in their order of arrival
NumReq == 2
Reqs == 1..NumReq

\* Questions typed into the REPL / sent from the browser in one session
MaxQuestions == 2

VARIABLES
    frontend,       \* which program runs: "translator", "api", "repl", "ui"
    \* nl_to_sql on its own
    tPc,            \* "called": generate_content pending, "returned"
    tText,          \* response.text
    tSql,           \* value returned by nl_to_sql
    \* api.py
    session,        \* app.state.session
    startup_error,  \* app.state.startup_error
    taskPc,         \* app.state._client_task: "none" or the runner's position
    taskResult,     \* how the task finished: "pending", "returned", "cancelled"
    cancelRequested,\* task.cancel() was called on the running task
    shutdownPc,     \* shutdown hook: "idle", "awaiting", "done", "raised"
    req,            \* the handlers' frames and responses, per request
    \* history of the runner, used to state properties
    initDone,       \* session.initialize() has returned
    failedWith,     \* str(e) of the exception that ended the runner, or None
    cancelAt,       \* position of the runner when task.cancel() hit it
    sessionWrites,  \* values assigned to app.state.session, in order
    \* main_client.py
    replPc,         \* position in main() / run_pipeline()
    replSchema,     \* schema_text
    replSql,        \* sql_query
    replOut,        \* sql_output, as lines
    replRows,       \* rows_text
    replCalls,      \* stages invoked for the current question
    replRaised,     \* stages that raised for the current question
    replPrinted,    \* what was printed for the current question
    replAsked,      \* number of questions entered
    \* stream_app.py
    uiPc,           \* position in the script / _run_pipeline_once()
    uiSchema,       \* schema_text
    uiSql,          \* sql
    uiOut,          \* output, as lines
    uiRows,         \* rows_text
    uiCalls,        \* stages invoked for the current request
    uiRaised,       \* stages that raised for the current request
    uiResult,       \* value returned by _run_pipeline_once()
    uiHistory       \* st.session_state["history"]

tvars == <<tPc, tText, tSql>>
apivars == <<session, startup_error, taskPc, taskResult, cancelRequested,
             shutdownPc, req, initDone, failedWith, cancelAt, sessionWrites>>
replvars == <<replPc, replSchema, replSql, replOut, replRows, replCalls,
              replRaised, replPrinted, replAsked>>
uivars == <<uiPc, uiSchema, uiSql, uiOut, uiRows, uiCalls, uiRaised, uiResult,
            uiHistory>>
vars == <<frontend, tvars, apivars, replvars, uivars>>

\* What a step of one program leaves unchanged: the other programs
NotApi == <<frontend, tvars, replvars, uivars>>
NotRepl == <<frontend, tvars, apivars, uivars>>
NotUi == <<frontend, tvars, apivars, replvars>>

\* ------------------------------------------------------------------------
\* api.py: helpers
\* ------------------------------------------------------------------------

NoBody ==
    [keys |-> {}, schema |-> Nil, sql |-> <<>>, text |-> <<>>, summary |-> Nil,
     mcp_session |-> FALSE, startup_error |-> Nil]

IdleReq ==
    [ep |-> Nil, pc |-> "idle", session |-> Nil,
     schema |-> Nil, sql |-> <<>>, result |-> <<>>,
     rows |-> <<>>, calls |-> <<>>, raised |-> {}, status |-> 0,
     detail |-> <<>>, body |-> NoBody, phase |-> Nil, failText |-> Nil]

\* Where the runner stands, as seen from outside
Phase ==
    IF failedWith # None THEN "failed"
    ELSE IF initDone THEN "ready" ELSE "not_ready"

\* return {...} / raise HTTPException(status_code, detail)
Respond(q, status, detail, body) ==
    [q EXCEPT !.pc = "done", !.status = status, !.detail = detail, !.body = body]

\* A slip of _get_session: the two status codes exchanged.
GetSessionSwapped(sess, err) ==
    IF GetAttr(sess) = None
    THEN IF Truthy(GetAttr(err))
         THEN [ok |-> FALSE, session |-> Nil, status |-> 503,
               detail |-> <<"MCP startup error", GetAttr(err)>>]
         ELSE [ok |-> FALSE, session |-> Nil, status |-> 500,
               detail |-> <<"MCP ClientSession not ready">>]
    ELSE [ok |-> TRUE, session |-> GetAttr(sess), status |-> 0, detail |-> <<>>]

\* A slip of _get_session: the None check is left out.
GetSessionUnchecked(sess, err) ==
    [ok |-> TRUE, session |-> GetAttr(sess), status |-> 0, detail |-> <<>>]

\* _get_session() (api.py 62-68)
GetSession(sess, err) ==
    IF GetAttr(sess) = None
    THEN IF Truthy(GetAttr(err))
         THEN [ok |-> FALSE, session |-> Nil, status |-> 500,
               detail |-> <<"MCP startup error", GetAttr(err)>>]
         ELSE [ok |-> FALSE, session |-> Nil, status |-> 503,
               detail |-> <<"MCP ClientSession not ready">>]
    ELSE [ok |-> TRUE, session |-> GetAttr(sess), status |-> 0, detail |-> <<>>]

\* A slip of health: the recorded error is not reported.
HealthNoError(sess, err) ==
    [NoBody EXCEPT !.keys = {"api", "mcp_session", "startup_error"},
                   !.mcp_session = Truthy(GetAttr(sess)),
                   !.startup_error = None]

\* body of health() (api.py 71-73)
Health(sess, err) ==
    [NoBody EXCEPT !.keys = {"api", "mcp_session", "startup_error"},
                   !.mcp_session = Truthy(GetAttr(sess)),
                   !.startup_error = GetAttr(err)]

\* The first await of each handler that needs the session
FirstStage(ep) == IF ep = "execute" THEN "execute_sql" ELSE "get_schema"

Endpoints == {"health", "schema", "nl2sql", "execute", "query"}

\* ------------------------------------------------------------------------
\* api.py: startup task and shutdown hook
\* ------------------------------------------------------------------------

\* The awaits of _client_runner inside its try block (api.py 34-40)
TryAwaits == {"stdio_client", "ClientSession", "initialize", "parked"}

\* startup(): create the task running _client_runner (api.py 26-48).  The
\* task's first step is queued before anything that can call shutdown.
Startup ==
    /\ frontend = "api"
    /\ UNCHANGED NotApi
    /\ taskPc = "none"
    /\ shutdownPc = "idle"
    /\ taskPc' = "stdio_client"
    /\ UNCHANGED <<session, startup_error, taskResult, cancelRequested,
                   shutdownPc, req, initDone, failedWith, cancelAt, sessionWrites>>

\* the two context managers are entered (api.py 34-35)
RunnerEnter ==
    /\ frontend = "api"
    /\ UNCHANGED NotApi
    /\ ~cancelRequested
    /\ taskPc \in {"stdio_client", "ClientSession"}
    /\ taskPc' = IF taskPc = "stdio_client" THEN "ClientSession" ELSE "initialize"
    /\ UNCHANGED <<session, startup_error, taskResult, cancelRequested,
                   shutdownPc, req, initDone, failedWith, cancelAt, sessionWrites>>

\* initialize() returns, the session is published, the runner parks on the
\* future that never resolves (api.py 36-40)
RunnerInitialized ==
    /\ frontend = "api"
    /\ UNCHANGED NotApi
    /\ ~cancelRequested
    /\ taskPc = "initialize"
    /\ session' = SessionObj
    /\ sessionWrites' = Append(sessionWrites, SessionObj)
    /\ initDone' = TRUE
    /\ taskPc' = "parked"
    /\ UNCHANGED <<startup_error, taskResult, cancelRequested, shutdownPc, req,
                   failedWith, cancelAt>>

\* An exception leaves the async-with blocks at one of the awaits; this
\* includes the parked await, which the task group of the transport cancels
\* when the subprocess goes away (api.py 43-46)
RunnerFail(e) ==
    /\ frontend = "api"
    /\ UNCHANGED NotApi
    /\ ~cancelRequested
    /\ taskPc \in TryAwaits
    /\ session' = None
    /\ sessionWrites' = Append(sessionWrites, None)
    /\ startup_error' = e
    /\ failedWith' = e
    /\ taskPc' = "done"
    /\ taskResult' = "returned"
    /\ UNCHANGED <<cancelRequested, shutdownPc, req, initDone, cancelAt>>

\* A slip of the runner: CancelledError is not caught and ends the task.
RunnerOnCancelledPropagates == "cancelled"

\* except asyncio.CancelledError: log and fall off the end (api.py 41-42)
RunnerOnCancelled == "returned"

\* CancelledError is thrown into the runner at its current await
RunnerCancelled ==
    /\ frontend = "api"
    /\ UNCHANGED NotApi
    /\ cancelRequested
    /\ taskPc \in TryAwaits
    /\ taskPc' = "done"
    /\ taskResult' = RunnerOnCancelled
    /\ UNCHANGED <<session, startup_error, cancelRequested, shutdownPc, req,
                   initDone, failedWith, cancelAt, sessionWrites>>

\* try: await task / except Exception: pass (api.py 56-59); CancelledError
\* is not an Exception
AwaitTask(result) == IF result = "cancelled" THEN "raised" ELSE "done"

\* shutdown() up to its await (api.py 51-57)
Shutdown ==
    /\ frontend = "api"
    /\ UNCHANGED NotApi
    /\ shutdownPc = "idle"
    /\ IF taskPc = "none"
       THEN /\ shutdownPc' = "done"
            /\ UNCHANGED <<cancelRequested, cancelAt>>
       ELSE IF taskPc = "done"
       THEN /\ shutdownPc' = AwaitTask(taskResult)
            /\ UNCHANGED <<cancelRequested, cancelAt>>
       ELSE /\ shutdownPc' = "awaiting"
            /\ cancelRequested' = TRUE
            /\ cancelAt' = taskPc
    /\ UNCHANGED <<session, startup_error, taskPc, taskResult, req, initDone,
                   failedWith, sessionWrites>>

\* the awaited task is done (api.py 57-59)
ShutdownResume ==
    /\ frontend = "api"
    /\ UNCHANGED NotApi
    /\ shutdownPc = "awaiting"
    /\ taskPc = "done"
    /\ shutdownPc' = AwaitTask(taskResult)
    /\ UNCHANGED <<session, startup_error, taskPc, taskResult, cancelRequested,
                   req, initDone, failedWith, cancelAt, sessionWrites>>

\* ------------------------------------------------------------------------
\* api.py: request handlers, one step per await
\* ------------------------------------------------------------------------

SetReq(r, q) == req' = [req EXCEPT ![r] = q]

ApiFrame == <<session, startup_error, taskPc, taskResult, cancelRequested,
              shutdownPc, initDone, failedWith, cancelAt, sessionWrites>>

\* the handler issues the next call of its pipeline and suspends on it
Invoke(q, stage) == [q EXCEPT !.pc = stage, !.calls = Append(@, stage)]

\* A request arrives and its handler runs up to its first await: /health
\* answers at once, the others fetch the session first (api.py 73, 78, 90,
\* 107, 119)
HandlerStart(r, ep) ==
    /\ frontend = "api"
    /\ UNCHANGED NotApi
    /\ taskPc # "none"
    /\ shutdownPc = "idle"
    /\ req[r].pc = "idle"
    /\ \A o \in Reqs : o < r => req[o].pc # "idle"
    /\ LET q == [req[r] EXCEPT !.ep = ep,
                               !.phase = Phase,
                               !.failText = failedWith]
           g == GetSession(session, startup_error)
       IN  IF ep = "health"
           THEN SetReq(r, Respond(q, 200, <<>>, Health(session, startup_error)))
           ELSE IF ~g.ok
           THEN SetReq(r, Respond(q, g.status, g.detail, NoBody))
           ELSE SetReq(r, Invoke([q EXCEPT !.session = g.session], FirstStage(ep)))
    /\ UNCHANGED ApiFrame

\* A slip of /nl2sql and /query: a failed get_schema ends the request.
OnSchemaErrorAbort(q) ==
    Respond([q EXCEPT !.raised = @ \cup {"get_schema"}], 500, <<ToolError>>, NoBody)

\* except Exception: schema_text = "" (api.py 94-95, 124-125), then the
\* translation is requested
OnSchemaError(q) ==
    Invoke([q EXCEPT !.raised = @ \cup {"get_schema"}, !.schema = ""], "nl_to_sql")

\* call_tool("get_schema") returns its payload (api.py 80-81, 92-93, 122-123)
SchemaReturns(r) ==
    /\ frontend = "api"
    /\ UNCHANGED NotApi
    /\ req[r].pc = "get_schema"
    /\ LET q == req[r]
       IN  IF q.ep = "schema"
           THEN SetReq(r, Respond(q, 200, <<>>,
                    [NoBody EXCEPT !.keys = {"schema"}, !.schema = SchemaText]))
           ELSE SetReq(r, Invoke([q EXCEPT !.schema = SchemaText], "nl_to_sql"))
    /\ UNCHANGED ApiFrame

\* call_tool("get_schema") raises (api.py 82-84, 94-95, 124-125)
SchemaRaises(r) ==
    /\ frontend = "api"
    /\ UNCHANGED NotApi
    /\ req[r].pc = "get_schema"
    /\ LET q == req[r]
       IN  IF q.ep = "schema"
           THEN SetReq(r, Respond([q EXCEPT !.raised = @ \cup {"get_schema"}],
                                  500, <<ToolError>>, NoBody))
           ELSE SetReq(r, OnSchemaError(q))
    /\ UNCHANGED ApiFrame

\* nl_to_sql returns the cleaned reply (api.py 98-99, 128)
TranslateReturns(r, reply) ==
    /\ frontend = "api"
    /\ UNCHANGED NotApi
    /\ req[r].pc = "nl_to_sql"
    /\ LET q == [req[r] EXCEPT !.sql = CleanSql(reply)]
       IN  IF q.ep = "nl2sql"
           THEN SetReq(r, Respond(q, 200, <<>>,
                    [NoBody EXCEPT !.keys = {"sql"}, !.sql = q.sql]))
           ELSE SetReq(r, Invoke(q, "execute_sql"))
    /\ UNCHANGED ApiFrame

\* A slip of the handlers: a failed translation does not end the request.
OnTranslateErrorContinue(q) ==
    Invoke([q EXCEPT !.raised = @ \cup {"nl_to_sql"}], "execute_sql")

\* except Exception as e: raise HTTPException(500) (api.py 100-102, 129-131)
OnTranslateError(q) ==
    Respond([q EXCEPT !.raised = @ \cup {"nl_to_sql"}], 500, <<ModelError>>, NoBody)

\* nl_to_sql raises
TranslateRaises(r) ==
    /\ frontend = "api"
    /\ UNCHANGED NotApi
    /\ req[r].pc = "nl_to_sql"
    /\ SetReq(r, OnTranslateError(req[r]))
    /\ UNCHANGED ApiFrame

\* call_tool("execute_sql") returns its payload (api.py 109-111, 134-135,
\* 142-144)
ExecuteReturns(r, text) ==
    /\ frontend = "api"
    /\ UNCHANGED NotApi
    /\ req[r].pc = "execute_sql"
    /\ LET q == [req[r] EXCEPT !.result = text]
       IN  IF q.ep = "execute"
           THEN SetReq(r, Respond(q, 200, <<>>,
                    [NoBody EXCEPT !.keys = {"text"}, !.text = text]))
           ELSE SetReq(r, Invoke([q EXCEPT !.rows = RowsText(text)], "summarise"))
    /\ UNCHANGED ApiFrame

\* call_tool("execute_sql") raises (api.py 112-114, 136-138)
ExecuteRaises(r) ==
    /\ frontend = "api"
    /\ UNCHANGED NotApi
    /\ req[r].pc = "execute_sql"
    /\ SetReq(r, Respond([req[r] EXCEPT !.raised = @ \cup {"execute_sql"}],
                         500, <<ToolError>>, NoBody))
    /\ UNCHANGED ApiFrame

\* return {"sql": sql, "result": exec_text, "summary": summary} (api.py 148)
QueryBody(q, summary) ==
    [NoBody EXCEPT !.keys = {"sql", "result", "summary"}, !.sql = q.sql,
                   !.text = q.result, !.summary = summary]

\* summarise returns (api.py 144, 148)
SummariseReturns(r) ==
    /\ frontend = "api"
    /\ UNCHANGED NotApi
    /\ req[r].pc = "summarise"
    /\ SetReq(r, Respond(req[r], 200, <<>>, QueryBody(req[r], SummaryText)))
    /\ UNCHANGED ApiFrame

\* A slip of /query: a failed summary ends the request with a 500.
QueryOnSummariseErrorAbort(q) ==
    Respond([q EXCEPT !.raised = @ \cup {"summarise"}], 500, <<ModelError>>, NoBody)

\* except Exception: summary = "(summary failed)" (api.py 145-148)
QueryOnSummariseError(q) ==
    Respond([q EXCEPT !.raised = @ \cup {"summarise"}], 200, <<>>,
            QueryBody(q, SummaryFailed))

\* summarise raises
SummariseRaises(r) ==
    /\ frontend = "api"
    /\ UNCHANGED NotApi
    /\ req[r].pc = "summarise"
    /\ SetReq(r, QueryOnSummariseError(req[r]))
    /\ UNCHANGED ApiFrame

\* ------------------------------------------------------------------------
\* main_client.py: main() and run_pipeline()
\* ------------------------------------------------------------------------

\* main() checks the API key and opens the transport (main_client.py 148-160)
ReplMain(hasKey) ==
    /\ frontend = "repl"
    /\ UNCHANGED NotRepl
    /\ replPc = "start"
    /\ replPc' = IF hasKey THEN "initialize" ELSE "no_key"
    /\ UNCHANGED <<replSchema, replSql, replOut, replRows, replCalls, replRaised,
                   replPrinted, replAsked>>

\* initialize() and list_tools() return; run_pipeline() requests the schema
\* (main_client.py 163-170, 84)
ReplConnect ==
    /\ frontend = "repl"
    /\ UNCHANGED NotRepl
    /\ replPc \in {"initialize", "list_tools"}
    /\ replPc' = IF replPc = "initialize" THEN "list_tools" ELSE "get_schema"
    /\ replCalls' = IF replPc = "list_tools" THEN <<"get_schema">> ELSE replCalls
    /\ UNCHANGED <<replSchema, replSql, replOut, replRows, replRaised,
                   replPrinted, replAsked>>

\* the connection fails: main() reports it and returns (main_client.py 172-182)
ReplConnectFails ==
    /\ frontend = "repl"
    /\ UNCHANGED NotRepl
    /\ replPc \in {"initialize", "list_tools"}
    /\ replPc' = "failed"
    /\ UNCHANGED <<replSchema, replSql, replOut, replRows, replCalls, replRaised,
                   replPrinted, replAsked>>

\* the schema arrives, once per run (main_client.py 84-86)
ReplSchemaReturns ==
    /\ frontend = "repl"
    /\ UNCHANGED NotRepl
    /\ replPc = "get_schema"
    /\ replSchema' = SchemaText
    /\ replPc' = "prompt"
    /\ UNCHANGED <<replSql, replOut, replRows, replCalls, replRaised,
                   replPrinted, replAsked>>

\* get_schema raises outside the loop's try: the exception leaves
\* run_pipeline() and main() reports it (main_client.py 84, 172-182)
ReplSchemaRaises ==
    /\ frontend = "repl"
    /\ UNCHANGED NotRepl
    /\ replPc = "get_schema"
    /\ replRaised' = replRaised \cup {"get_schema"}
    /\ replPc' = "failed"
    /\ UNCHANGED <<replSchema, replSql, replOut, replRows, replCalls,
                   replPrinted, replAsked>>

\* exit, quit, q, an empty line or Ctrl-C at the prompt
\* (main_client.py 92-97, 132-134)
ReplExit ==
    /\ frontend = "repl"
    /\ UNCHANGED NotRepl
    /\ replPc = "prompt"
    /\ replPc' = "exited"
    /\ UNCHANGED <<replSchema, replSql, replOut, replRows, replCalls, replRaised,
                   replPrinted, replAsked>>

\* a question is entered and the translation is requested
\* (main_client.py 92-101)
ReplQuestion ==
    /\ frontend = "repl"
    /\ UNCHANGED NotRepl
    /\ replPc = "prompt"
    /\ replAsked < MaxQuestions
    /\ replAsked' = replAsked + 1
    /\ replSql' = <<>>
    /\ replOut' = <<>>
    /\ replRows' = <<>>
    /\ replCalls' = <<"nl_to_sql">>
    /\ replRaised' = {}
    /\ replPrinted' = <<>>
    /\ replPc' = "nl_to_sql"
    /\ UNCHANGED replSchema

\* nl_to_sql returns; the SQL is printed and executed (main_client.py 101-106)
ReplTranslateReturns(reply) ==
    /\ frontend = "repl"
    /\ UNCHANGED NotRepl
    /\ replPc = "nl_to_sql"
    /\ replSql' = CleanSql(reply)
    /\ replPrinted' = Append(replPrinted, "sql")
    /\ replCalls' = Append(replCalls, "execute_sql")
    /\ replPc' = "execute_sql"
    /\ UNCHANGED <<replSchema, replOut, replRows, replRaised, replAsked>>

\* a stage raises inside the loop: the message is printed and the loop goes
\* on with the next question (main_client.py 135-138)
ReplStageRaises ==
    /\ frontend = "repl"
    /\ UNCHANGED NotRepl
    /\ replPc \in {"nl_to_sql", "execute_sql", "summarise"}
    /\ replRaised' = replRaised \cup {replPc}
    /\ replPrinted' = Append(replPrinted, "error")
    /\ replPc' = "prompt"
    /\ UNCHANGED <<replSchema, replSql, replOut, replRows, replCalls, replAsked>>

\* execute_sql returns: an Error payload is printed and the loop continues,
\* anything else is cut to the preview and summarised
\* (main_client.py 106-122)
ReplExecuteReturns(text) ==
    /\ frontend = "repl"
    /\ UNCHANGED NotRepl
    /\ replPc = "execute_sql"
    /\ replOut' = text
    /\ IF IsSoftError(text)
       THEN /\ replPrinted' = Append(replPrinted, "result")
            /\ replPc' = "prompt"
            /\ UNCHANGED <<replRows, replCalls>>
       ELSE /\ replPrinted' = Append(replPrinted, "executed")
            /\ replRows' = RowsText(text)
            /\ replCalls' = Append(replCalls, "summarise")
            /\ replPc' = "summarise"
    /\ UNCHANGED <<replSchema, replSql, replRaised, replAsked>>

\* summarise returns: the answer and the row count are printed
\* (main_client.py 122-130)
ReplSummariseReturns ==
    /\ frontend = "repl"
    /\ UNCHANGED NotRepl
    /\ replPc = "summarise"
    /\ replPrinted' = replPrinted \o <<"answer", "total_rows">>
    /\ replPc' = "prompt"
    /\ UNCHANGED <<replSchema, replSql, replOut, replRows, replCalls, replRaised,
                   replAsked>>

\* ------------------------------------------------------------------------
\* stream_app.py: the script and _run_pipeline_once()
\* ------------------------------------------------------------------------

NoResult == [keys |-> {}, error |-> Nil, sql |-> <<>>, output |-> <<>>, summary |-> Nil]

\* Send is pressed with a prompt: the question is recorded and the pipeline
\* opens its own transport (stream_app.py 56-60, 28-31)
UiSend ==
    /\ frontend = "ui"
    /\ UNCHANGED NotUi
    /\ uiPc = "idle"
    /\ Len(uiHistory) < 2 * MaxQuestions
    /\ uiHistory' = Append(uiHistory, [role |-> "user", kind |-> "prompt"])
    /\ uiSchema' = Nil
    /\ uiSql' = <<>>
    /\ uiOut' = <<>>
    /\ uiRows' = <<>>
    /\ uiCalls' = <<>>
    /\ uiRaised' = {}
    /\ uiResult' = NoResult
    /\ uiPc' = "initialize"

\* initialize() returns and the schema is requested (stream_app.py 31-34)
UiInitialized ==
    /\ frontend = "ui"
    /\ UNCHANGED NotUi
    /\ uiPc = "initialize"
    /\ uiCalls' = Append(uiCalls, "get_schema")
    /\ uiPc' = "get_schema"
    /\ UNCHANGED <<uiSchema, uiSql, uiOut, uiRows, uiRaised, uiResult, uiHistory>>

\* anything raised inside the try becomes the result {"error": str(e)}
\* (stream_app.py 51-52)
UiRaises ==
    /\ frontend = "ui"
    /\ UNCHANGED NotUi
    /\ uiPc \in {"initialize", "get_schema", "nl_to_sql", "execute_sql", "summarise"}
    /\ uiRaised' = uiRaised \cup {uiPc}
    /\ uiResult' = [NoResult EXCEPT !.keys = {"error"},
                       !.error = IF uiPc \in {"nl_to_sql", "summarise"}
                                 THEN ModelError ELSE ToolError]
    /\ uiPc' = "returned"
    /\ UNCHANGED <<uiSchema, uiSql, uiOut, uiRows, uiCalls, uiHistory>>

\* the schema arrives and the translation is requested (stream_app.py 34-38)
UiSchemaReturns ==
    /\ frontend = "ui"
    /\ UNCHANGED NotUi
    /\ uiPc = "get_schema"
    /\ uiSchema' = SchemaText
    /\ uiCalls' = Append(uiCalls, "nl_to_sql")
    /\ uiPc' = "nl_to_sql"
    /\ UNCHANGED <<uiSql, uiOut, uiRows, uiRaised, uiResult, uiHistory>>

\* nl_to_sql returns and the SQL is executed (stream_app.py 38-41)
UiTranslateReturns(reply) ==
    /\ frontend = "ui"
    /\ UNCHANGED NotUi
    /\ uiPc = "nl_to_sql"
    /\ uiSql' = CleanSql(reply)
    /\ uiCalls' = Append(uiCalls, "execute_sql")
    /\ uiPc' = "execute_sql"
    /\ UNCHANGED <<uiSchema, uiOut, uiRows, uiRaised, uiResult, uiHistory>>

\* execute_sql returns and the preview is summarised (stream_app.py 41-47)
UiExecuteReturns(text) ==
    /\ frontend = "ui"
    /\ UNCHANGED NotUi
    /\ uiPc = "execute_sql"
    /\ uiOut' = text
    /\ uiRows' = RowsText(text)
    /\ uiCalls' = Append(uiCalls, "summarise")
    /\ uiPc' = "summarise"
    /\ UNCHANGED <<uiSchema, uiSql, uiRaised, uiResult, uiHistory>>

\* summarise returns and the three outputs are returned (stream_app.py 47-49)
UiSummariseReturns ==
    /\ frontend = "ui"
    /\ UNCHANGED NotUi
    /\ uiPc = "summarise"
    /\ uiResult' = [NoResult EXCEPT !.keys = {"sql", "output", "summary"},
                       !.sql = uiSql, !.output = uiOut, !.summary = SummaryText]
    /\ uiPc' = "returned"
    /\ UNCHANGED <<uiSchema, uiSql, uiOut, uiRows, uiCalls, uiRaised, uiHistory>>

\* the result is appended to the history (stream_app.py 68-74)
UiRender ==
    /\ frontend = "ui"
    /\ UNCHANGED NotUi
    /\ uiPc = "returned"
    /\ uiHistory' = Append(uiHistory,
           [role |-> "assistant",
            kind |-> IF "error" \in uiResult.keys THEN "error" ELSE "answer"])
    /\ uiPc' = "idle"
    /\ UNCHANGED <<uiSchema, uiSql, uiOut, uiRows, uiCalls, uiRaised, uiResult>>

\* ------------------------------------------------------------------------
\* Specifications
\* ------------------------------------------------------------------------

ApiInit ==
    /\ session = Unset
    /\ startup_error = Unset
    /\ taskPc = "none"
    /\ taskResult = "pending"
    /\ cancelRequested = FALSE
    /\ shutdownPc = "idle"
    /\ req = [r \in Reqs |-> IdleReq]
    /\ initDone = FALSE
    /\ failedWith = None
    /\ cancelAt = Nil
    /\ sessionWrites = <<>>

ReplInit ==
    /\ replPc = "start"
    /\ replSchema = Nil
    /\ replSql = <<>>
    /\ replOut = <<>>
    /\ replRows = <<>>
    /\ replCalls = <<>>
    /\ replRaised = {}
    /\ replPrinted = <<>>
    /\ replAsked = 0

UiInit ==
    /\ uiPc = "idle"
    /\ uiSchema = Nil
    /\ uiSql = <<>>
    /\ uiOut = <<>>
    /\ uiRows = <<>>
    /\ uiCalls = <<>>
    /\ uiRaised = {}
    /\ uiResult = NoResult
    /\ uiHistory = <<>>

\* nl_to_sql on its own, over every response text of the bounded set
TInit ==
    /\ frontend = "translator"
    /\ tPc = "called"
    /\ tText \in Texts
    /\ tSql = <<>>
    /\ ApiInit /\ ReplInit /\ UiInit

\* nl_to_sql receives response.text and returns the cleaned sql
\* (main_client.py 40-50)
Translate ==
    /\ frontend = "translator"
    /\ tPc = "called"
    /\ tSql' = CleanSql(tText)
    /\ tPc' = "returned"
    /\ UNCHANGED <<frontend, tText, apivars, replvars, uivars>>

TNext == Translate

TranslatorSpec == TInit /\ [][TNext]_vars

\* One of the three front-ends runs
Init ==
    /\ frontend \in {"api", "repl", "ui"}
    /\ tPc = "returned"
    /\ tText = <<>>
    /\ tSql = <<>>
    /\ ApiInit /\ ReplInit /\ UiInit

Next ==
    \/ Startup
    \/ RunnerEnter
    \/ RunnerInitialized
    \/ \E e \in ErrTexts : RunnerFail(e)
    \/ RunnerCancelled
    \/ Shutdown
    \/ ShutdownResume
    \/ \E r \in Reqs, ep \in Endpoints : HandlerStart(r, ep)
    \/ \E r \in Reqs : SchemaReturns(r)
    \/ \E r \in Reqs : SchemaRaises(r)
    \/ \E r \in Reqs, reply \in LlmReplies : TranslateReturns(r, reply)
    \/ \E r \in Reqs : TranslateRaises(r)
    \/ \E r \in Reqs, text \in ExecResults : ExecuteReturns(r, text)
    \/ \E r \in Reqs : ExecuteRaises(r)
    \/ \E r \in Reqs : SummariseReturns(r)
    \/ \E r \in Reqs : SummariseRaises(r)
    \/ \E hasKey \in BOOLEAN : ReplMain(hasKey)
    \/ ReplConnect
    \/ ReplConnectFails
    \/ ReplSchemaReturns
    \/ ReplSchemaRaises
    \/ ReplExit
    \/ ReplQuestion
    \/ \E reply \in LlmReplies : ReplTranslateReturns(reply)
    \/ ReplStageRaises
    \/ \E text \in ExecResults : ReplExecuteReturns(text)
    \/ ReplSummariseReturns
    \/ UiSend
    \/ UiInitialized
    \/ UiRaises
    \/ UiSchemaReturns
    \/ \E reply \in LlmReplies : UiTranslateReturns(reply)
    \/ \E text \in ExecResults : UiExecuteReturns(text)
    \/ UiSummariseReturns
    \/ UiRender

Spec == Init /\ [][Next]_vars

\* The HTTP API with one request: no handler step touches the task or the
\* shutdown hook, so their progress is checked with a single handler running
\* beside them.
LifecycleInit == Init /\ frontend = "api"

LifecycleNext ==
    \/ Startup
    \/ RunnerEnter
    \/ RunnerInitialized
    \/ \E e \in ErrTexts : RunnerFail(e)
    \/ RunnerCancelled
    \/ Shutdown
    \/ ShutdownResume
    \/ \E ep \in Endpoints : HandlerStart(1, ep)
    \/ SchemaReturns(1)
    \/ SchemaRaises(1)
    \/ \E reply \in LlmReplies : TranslateReturns(1, reply)
    \/ TranslateRaises(1)
    \/ \E text \in ExecResults : ExecuteReturns(1, text)
    \/ ExecuteRaises(1)
    \/ SummariseReturns(1)
    \/ SummariseRaises(1)

\* The event loop runs every task that is ready: a cancelled runner is
\* resumed and a shutdown hook whose awaited task is done is resumed.
LifecycleSpec ==
    /\ LifecycleInit
    /\ [][LifecycleNext]_vars
    /\ WF_vars(RunnerCancelled)
    /\ WF_vars(ShutdownResume)

\* ------------------------------------------------------------------------
\* Properties of nl_to_sql (checked under TranslatorSpec)
\* ------------------------------------------------------------------------

\* C1: the SQL returned by nl_to_sql has no leading or trailing whitespace
\* and contains neither the fence followed by sql nor the bare fence,
\* wherever the fence stands in the response.
C1_NoFenceInSql ==
    tPc = "returned" =>
        /\ Strip(tSql) = tSql
        /\ ~Contains(tSql, FenceSql)
        /\ ~Contains(tSql, Fence)

\* C2: the fence-stripping step is idempotent: applied to the SQL it has
\* returned, it returns that SQL unchanged.
C2_Idempotent == tPc = "returned" => CleanSql(tSql) = tSql

\* a fenced reply of more than two lines was cleaned to a non-empty SQL
C2_Witness ==
    /\ tPc = "returned"
    /\ StartsWith(Strip(tText), Fence)
    /\ Len(SplitLines(Strip(tText))) > 2
    /\ tSql # <<>>
    /\ tSql # tText

\* ------------------------------------------------------------------------
\* Properties of the HTTP API
\* ------------------------------------------------------------------------

Answered(r) == req[r].pc = "done"

\* The calls whose exception the handler turns into a 500
FatalStages(ep) ==
    IF ep = "schema" THEN {"get_schema"}
    ELSE IF ep = "nl2sql" THEN {"nl_to_sql"}
    ELSE IF ep = "execute" THEN {"execute_sql"}
    ELSE {"nl_to_sql", "execute_sql"}

\* C3 as stated: every endpoint but /health answers 503 whenever the
\* session is not available (not yet ready, or startup failed), and 500
\* only when the session was ready and a call raised.
C3_Original ==
    \A r \in Reqs :
        (Answered(r) /\ req[r].ep # "health") =>
            /\ req[r].phase \in {"not_ready", "failed"} => req[r].status = 503
            /\ req[r].status = 500 =>
                   req[r].phase = "ready" /\ req[r].raised # {}

\* C3 as amended: 503 while no session is published and no non-empty
\* startup error is recorded; 500 with the startup error when startup
\* failed with a non-empty error text; with a session, 500 exactly when a
\* call the handler does not absorb raised, 200 otherwise.
C3_StatusCodes ==
    \A r \in Reqs :
        (Answered(r) /\ req[r].ep # "health") =>
            /\ req[r].phase = "not_ready" => req[r].status = 503
            /\ (req[r].phase = "failed" /\ req[r].failText = "") =>
                   req[r].status = 503
            /\ (req[r].phase = "failed" /\ req[r].failText # "") =>
                   /\ req[r].status = 500
                   /\ req[r].detail = <<"MCP startup error", req[r].failText>>
            /\ req[r].phase = "ready" =>
                   /\ req[r].status \in {200, 500}
                   /\ req[r].status = 500 <=>
                          req[r].raised \cap FatalStages(req[r].ep) # {}

\* a request answered after startup failed with a recorded error
C3_Witness ==
    \E r \in Reqs :
        /\ Answered(r)
        /\ req[r].ep = "query"
        /\ req[r].phase = "failed"
        /\ req[r].failText # ""
        /\ req[r].status = 500

\* C4: /health always answers 200; before the runner has initialized the
\* session it reports mcp_session false and no startup error; after the
\* runner failed it reports mcp_session false and the text of the
\* exception; mcp_session true is reported only once initialize() returned.
C4_Health ==
    \A r \in Reqs :
        (Answered(r) /\ req[r].ep = "health") =>
            /\ req[r].status = 200
            /\ req[r].phase = "not_ready" =>
                   /\ ~req[r].body.mcp_session
                   /\ req[r].body.startup_error = None
            /\ req[r].phase = "failed" =>
                   /\ ~req[r].body.mcp_session
                   /\ req[r].body.startup_error = req[r].failText
            /\ req[r].body.mcp_session => req[r].phase = "ready"

\* /health answered after the runner failed
C4_Witness ==
    \E r \in Reqs :
        /\ Answered(r)
        /\ req[r].ep = "health"
        /\ req[r].phase = "failed"
        /\ req[r].body.startup_error = "server.py failed"

\* ------------------------------------------------------------------------
\* Properties of the pipeline in the three front-ends
\* ------------------------------------------------------------------------

InSeq(x, seq) == \E i \in 1..Len(seq) : seq[i] = x

\* the payload of execute_sql begins with the word Error
BeginsWithError(text) == text # <<>> /\ text[1].kind = "Error"

\* C5: when execute_sql returns an Error payload, the REPL does not call the
\* summariser for that question and is back at the prompt; /query still
\* calls the summariser on it, answers 200 with the Error text as result,
\* and carries the placeholder summary when the summariser failed.
C5_SoftError ==
    /\ (frontend = "repl" /\ BeginsWithError(replOut)) =>
           /\ ~InSeq("summarise", replCalls)
           /\ replPc \in {"prompt", "exited"}
           /\ replPrinted = <<"sql", "result">>
    /\ \A r \in Reqs :
           (req[r].ep = "query" /\ BeginsWithError(req[r].result)) =>
               /\ InSeq("summarise", req[r].calls)
               /\ req[r].rows = req[r].result
               /\ Answered(r) =>
                      /\ req[r].status = 200
                      /\ req[r].body.text = req[r].result
                      /\ "summarise" \in req[r].raised =>
                             req[r].body.summary = SummaryFailed

\* the REPL is back at the prompt after an Error payload
C5_Witness ==
    /\ frontend = "repl"
    /\ replPc = "prompt"
    /\ BeginsWithError(replOut)
    /\ replAsked = 1

\* C6 as stated: shutdown never raises, and a runner cancelled while parked
\* on the future ends in the cancelled state.
C6_Original ==
    /\ shutdownPc # "raised"
    /\ (shutdownPc = "done" /\ cancelAt = "parked") => taskResult = "cancelled"

\* shutdown has not raised; once it is done the task, if any, is done; a
\* runner cancelled while parked has caught the cancellation and returned
C6_Inv ==
    /\ shutdownPc # "raised"
    /\ shutdownPc = "done" => taskPc \in {"none", "done"}
    /\ (cancelAt = "parked" /\ taskPc = "done") => taskResult = "returned"

\* C6 as amended: the shutdown hook always terminates without raising,
\* whatever the state of the task; a task cancelled while parked on the
\* future ends, having caught the cancellation, as a normally completed
\* task and not in the cancelled state.
C6_ShutdownTerminates ==
    /\ []C6_Inv
    /\ (shutdownPc = "awaiting") ~> (shutdownPc = "done")

\* shutdown completed after cancelling the parked runner
C6_Witness ==
    /\ shutdownPc = "done"
    /\ cancelAt = "parked"
    /\ taskPc = "done"

\* C7 as stated: when only the summary call fails, /query and the REPL put
\* a placeholder in place of the summary and still deliver the SQL and the
\* execution result; the browser pipeline returns a top-level error.
C7_Original ==
    /\ \A r \in Reqs :
           (Answered(r) /\ "summarise" \in req[r].raised) =>
               /\ req[r].status = 200
               /\ req[r].body.summary = SummaryFailed
               /\ req[r].body.sql = req[r].sql
               /\ req[r].body.text = req[r].result
    /\ "summarise" \in replRaised =>
           /\ InSeq("sql", replPrinted)
           /\ InSeq("result", replPrinted)
           /\ InSeq("answer", replPrinted)
    /\ ("summarise" \in uiRaised /\ uiPc = "returned") =>
           uiResult.keys = {"error"}

\* C7 as amended: only /query puts the placeholder in place of the summary
\* and still returns the SQL and the result; in the REPL a failed summary
\* prints the error message after the SQL, prints neither the result nor an
\* answer, and the loop goes back to the prompt; the browser pipeline
\* returns only a top-level error.
C7_SummaryFailure ==
    /\ \A r \in Reqs :
           (Answered(r) /\ "summarise" \in req[r].raised) =>
               /\ req[r].status = 200
               /\ req[r].body.summary = SummaryFailed
               /\ req[r].body.sql = req[r].sql
               /\ req[r].body.text = req[r].result
    /\ "summarise" \in replRaised =>
           /\ replPrinted = <<"sql", "executed", "error">>
           /\ replPc \in {"prompt", "exited"}
    /\ ("summarise" \in uiRaised /\ uiPc = "returned") =>
           /\ uiResult.keys = {"error"}
           /\ uiResult.sql = <<>>
           /\ uiResult.output = <<>>

\* the REPL is back at the prompt after the summary call failed
C7_Witness ==
    /\ frontend = "repl"
    /\ "summarise" \in replRaised
    /\ replPc = "prompt"

\* C8 as stated: when get_schema fails, /nl2sql, /query and the browser
\* pipeline go on and call the translator with an empty schema; only the
\* REPL aborts its run.
C8_Original ==
    /\ \A r \in Reqs :
           (req[r].ep \in {"nl2sql", "query"} /\ "get_schema" \in req[r].raised) =>
               /\ req[r].schema = ""
               /\ InSeq("nl_to_sql", req[r].calls)
    /\ "get_schema" \in uiRaised =>
           /\ uiSchema = ""
           /\ InSeq("nl_to_sql", uiCalls)
    /\ "get_schema" \in replRaised => replPc = "failed"

\* C8 as amended: when get_schema fails, /nl2sql and /query go on and call
\* the translator with an empty schema; the browser pipeline returns a
\* top-level error without calling the translator, and the REPL aborts its
\* run.
C8_SchemaFailure ==
    /\ \A r \in Reqs :
           (req[r].ep \in {"nl2sql", "query"} /\ "get_schema" \in req[r].raised) =>
               /\ req[r].schema = ""
               /\ InSeq("nl_to_sql", req[r].calls)
               /\ req[r].status # 500 \/ "nl_to_sql" \in req[r].raised
                      \/ "execute_sql" \in req[r].raised
    /\ "get_schema" \in uiRaised =>
           /\ uiPc \in {"returned", "idle"}
           /\ uiResult.keys = {"error"}
           /\ uiCalls = <<"get_schema">>
    /\ "get_schema" \in replRaised =>
           /\ replPc = "failed"
           /\ replCalls = <<"get_schema">>

\* the browser pipeline returned an error after get_schema failed
C8_Witness ==
    /\ frontend = "ui"
    /\ "get_schema" \in uiRaised
    /\ uiPc = "returned"

IsToolStage(stage) == stage \in {"get_schema", "execute_sql"}

\* every tool call of a handler was issued on the session object
CallsOnSession ==
    \A r \in Reqs :
        (\E i \in 1..Len(req[r].calls) : IsToolStage(req[r].calls[i])) =>
            req[r].session = SessionObj

\* a step of a request handler leaves app.state.session alone
HandlersKeepSession ==
    req' # req => (session' = session /\ sessionWrites' = sessionWrites)

\* a step that changes app.state.session is a step of the runner, not of
\* the shutdown hook or of a handler
OnlyRunnerWrites ==
    session' # session =>
        (taskPc' # taskPc /\ shutdownPc' = shutdownPc /\ req' = req)

\* C9 as stated: app.state.session is written exactly once, no handler
\* writes it, and no tool call is issued on an unset or None session.
C9_Original ==
    /\ Len(sessionWrites) <= 1
    /\ CallsOnSession

\* C9 as amended: app.state.session is assigned only by the startup task,
\* at most once with the initialized session and at most once, after that,
\* with None when the task fails; no handler step changes it, and no tool
\* call is issued on an unset or None session.
C9_SessionFrame ==
    /\ [](/\ sessionWrites \in {<<>>, <<SessionObj>>, <<None>>, <<SessionObj, None>>}
          /\ CallsOnSession)
    /\ [][HandlersKeepSession /\ OnlyRunnerWrites]_vars

\* a handler is waiting on its tool call after the runner reset the session
C9_Witness ==
    /\ sessionWrites = <<SessionObj, None>>
    /\ \E r \in Reqs : req[r].pc = "get_schema" /\ req[r].ep = "query"
    /\ \E r \in Reqs : req[r].pc = "execute_sql"

StageIdx(stage) ==
    IF stage = "get_schema" THEN 1
    ELSE IF stage = "nl_to_sql" THEN 2
    ELSE IF stage = "execute_sql" THEN 3
    ELSE 4

Stages == {"get_schema", "nl_to_sql", "execute_sql", "summarise"}

\* each call follows the previous stage of the pipeline, none is repeated
InOrder(calls) ==
    \A i \in 1..Len(calls) :
        /\ calls[i] \in Stages
        /\ i > 1 => StageIdx(calls[i]) = StageIdx(calls[i - 1]) + 1

\* the one call in flight is the last one issued
LastIs(calls, pc) == pc \in Stages => (Len(calls) > 0 /\ calls[Len(calls)] = pc)

\* C10: in every front-end the stages of one request are invoked in the
\* order get_schema, nl_to_sql, execute_sql, summarise, each at most once
\* and only after the previous one returned; in /query a failed translation
\* gives a 500 with neither execute_sql nor summarise invoked, and a raising
\* execute_sql gives a 500 without summarise invoked.
C10_StageOrder ==
    /\ \A r \in Reqs :
           /\ InOrder(req[r].calls)
           /\ LastIs(req[r].calls, req[r].pc)
           /\ (req[r].ep = "query" /\ "nl_to_sql" \in req[r].raised) =>
                  /\ Answered(r)
                  /\ req[r].status = 500
                  /\ req[r].calls = <<"get_schema", "nl_to_sql">>
           /\ (req[r].ep = "query" /\ "execute_sql" \in req[r].raised) =>
                  /\ Answered(r)
                  /\ req[r].status = 500
                  /\ req[r].calls = <<"get_schema", "nl_to_sql", "execute_sql">>
    /\ InOrder(replCalls)
    /\ LastIs(replCalls, replPc)
    /\ InOrder(uiCalls)
    /\ LastIs(uiCalls, uiPc)

\* /query answered 500 after the translation failed
C10_Witness ==
    \E r \in Reqs :
        /\ Answered(r)
        /\ req[r].ep = "query"
        /\ "nl_to_sql" \in req[r].raised
        /\ req[r].status = 500


====
